---- MODULE Spec2Model ----
(***************************************************************************)
(* Feature Hub, package @feature-hub/react: the lifecycle of one          *)
(* InternalFeatureAppContainer instance (feature-app-container.tsx).      *)
(*                                                                         *)
(* The component is driven by React: constructor, render, commit,         *)
(* componentDidMount (an async function that may suspend on the Feature   *)
(* App's loadingPromise), componentDidCatch, re-renders and               *)
(* componentWillUnmount.  The props and the behaviour of the collaborators *)
(* (Feature App manager, Feature App, onError callback, children render   *)
(* prop) are chosen in Init and stay fixed for one behaviour.             *)
(*                                                                         *)
(* The second part is the lifecycle of one InternalFeatureAppLoader       *)
(* instance (feature-app-loader.tsx), specification SpecLoader.           *)
(*                                                                         *)
(* The third part is the serialized-state manager, as its specification   *)
(* and its tests describe it: specification SpecRegistry.                 *)
(***************************************************************************)
EXTENDS Naturals, Sequences, FiniteSets

VARIABLES
    props,            \* the props of the Container
    env,              \* behaviour of the collaborators (manager, Feature App, scope)
    pc,               \* position of the instance in the React lifecycle
    didMount,         \* position of the async function componentDidMount
    container,        \* the local `container` captured by componentDidMount
    featureAppScope,  \* this.featureAppScope
    state,            \* this.state
    containerRef,     \* this.containerRef.current
    lastRender,       \* what the last completed render() returned
    onErrorCalls,     \* arguments of the calls of props.onError
    loggerCalls,      \* arguments of the calls of logger.error
    routed,           \* arguments of the calls of handleError
    renderCalls,      \* number of calls of featureApp.render
    attachCalls,      \* the calls of featureApp.attachTo
    createCalls,      \* number of calls of createFeatureAppScope
    releaseCalls,     \* number of calls of featureAppScope.release
    escaped,          \* exceptions that left a method called by React
    rejection,        \* the error the promise of componentDidMount rejected with
    rerenders,        \* number of re-renders requested by the parent
    loader,           \* an InternalFeatureAppLoader instance and its surroundings
    registry          \* the serialized-state managers of a server and a browser

vars == <<props, env, pc, didMount, container, featureAppScope, state,
          containerRef, lastRender, onErrorCalls, loggerCalls, routed,
          renderCalls, attachCalls, createCalls, releaseCalls, escaped,
          rejection, rerenders, loader, registry>>

\* Number of re-renders the parent may request while the Container is mounted.
MaxReRenders == 2

----------------------------------------------------------------------------
(* Values *)

\* The fixed message of the error thrown for an invalid Feature App.
InvalidFeatureAppError == "Invalid Feature App found."

\* The errors of the throw sites; HandlerError is what a throwing onError throws.
CreationError == "E"
ReadinessError == "ELoading"
AttachError == "EAttach"
RenderError == "ERender"
SubtreeError == "ESubtree"
ReleaseError == "ERelease"
HandlerError == "E2"

\* What createFeatureAppScope can return as scope.featureApp.
InvalidFeatureApps ==
    {"undefined", "null", "empty", "attachToNotCallable", "renderNotCallable"}

ValidFeatureApps == {"react", "dom"}

\* type-guards: an object with a callable attachTo / render.
isDomFeatureApp(featureApp) == featureApp = "dom"

isReactFeatureApp(featureApp) == featureApp = "react"

isFeatureApp(featureApp) ==
    isDomFeatureApp(featureApp) \/ isReactFeatureApp(featureApp)

PropsSet ==
    [onError : {"none", "returns", "throws"},
     renderError : BOOLEAN,
     children : {"none", "always", "whenLoaded"}]

\* The collaborators.  Only the fields the created Feature App has are varied.
EnvSet ==
    {e \in [create : {"throws", "returns"},
            featureApp : InvalidFeatureApps \cup ValidFeatureApps,
            loadingPromise : BOOLEAN,
            renderThrows : BOOLEAN,
            attachThrows : BOOLEAN,
            releaseThrows : BOOLEAN] :
        /\ e.create = "throws" =>
              e.featureApp = "undefined" /\ ~e.releaseThrows
        /\ ~isFeatureApp(e.featureApp) => ~e.loadingPromise
        /\ ~isReactFeatureApp(e.featureApp) => ~e.renderThrows
        /\ ~isDomFeatureApp(e.featureApp) => ~e.attachThrows}

NoState == [k \in {} |-> FALSE]

NotRendered == [view |-> "notRendered"]

Null == [view |-> "null"]

----------------------------------------------------------------------------
(* The instance as a value: the methods below map one to the next.  The   *)
(* field thrown holds the exception that is propagating, if any.          *)

This(isMounted) ==
    [state |-> state, containerRef |-> containerRef, lastRender |-> lastRender,
     onErrorCalls |-> onErrorCalls, loggerCalls |-> loggerCalls,
     routed |-> routed, renderCalls |-> renderCalls,
     attachCalls |-> attachCalls, releaseCalls |-> releaseCalls,
     featureAppScope |-> featureAppScope,
     mounted |-> isMounted, thrown |-> "none"]

\* An exception is propagating: the statements that follow do not run.
Threw(w) == w.thrown # "none"

\* handleError that reports to the logger as well as to onError.
handleError_BothSinks(w, error) ==
    LET r == [w EXCEPT !.routed = Append(@, error),
                       !.loggerCalls = Append(@, error)] IN
    IF props.onError # "none"
    THEN [r EXCEPT !.onErrorCalls = Append(@, error),
                   !.thrown = IF props.onError = "throws"
                              THEN HandlerError ELSE "none"]
    ELSE r

\* handleError that catches what onError throws and logs it.
handleError_CatchesHandler(w, error) ==
    LET r == [w EXCEPT !.routed = Append(@, error)] IN
    IF props.onError # "none"
    THEN IF props.onError = "throws"
         THEN [r EXCEPT !.onErrorCalls = Append(@, error),
                        !.loggerCalls = Append(@, HandlerError)]
         ELSE [r EXCEPT !.onErrorCalls = Append(@, error)]
    ELSE [r EXCEPT !.loggerCalls = Append(@, error)]

\* handleError: onError when supplied, the logger otherwise.
handleError(w, error) ==
    LET r == [w EXCEPT !.routed = Append(@, error)] IN
    IF props.onError # "none"
    THEN [r EXCEPT !.onErrorCalls = Append(@, error),
                   !.thrown = IF props.onError = "throws"
                              THEN HandlerError ELSE "none"]
    ELSE [r EXCEPT !.loggerCalls = Append(@, error)]

\* renderError that ignores the renderError prop.
renderError_AlwaysNull(error) == Null

\* renderError: the deprecated renderError prop, or null.
renderError(error) ==
    IF props.renderError
    THEN [view |-> "renderError", error |-> error]
    ELSE Null

\* The children render prop applied to its params.
children(featureApp, error, loading) ==
    [view |-> "children", featureApp |-> featureApp, error |-> error,
     loading |-> loading]

\* Whether the node the children render prop returned contains the
\* featureApp node it was given: "always" passes it through, "whenLoaded"
\* shows a loading UI in its place while loading is true.
ChildrenShow(out) ==
    /\ out.featureApp # "none"
    /\ props.children = "always" \/ ~out.loading

\* The rendered output contains the owned <div ref={containerRef} />.
ContainsDiv(out) ==
    \/ out.view = "div"
    \/ out.view = "children" /\ out.featureApp = "div" /\ ChildrenShow(out)

\* The rendered output contains what featureApp.render() returned.
ContainsFeatureApp(out) ==
    \/ out.view = "featureApp"
    \/ out.view = "children" /\ out.featureApp = "featureApp"
                             /\ ChildrenShow(out)

\* render
render(w) ==
    IF props.children # "none"
    THEN IF "featureAppError" \in DOMAIN w.state
         THEN [w EXCEPT !.lastRender =
                   children("none", w.state.featureAppError, FALSE)]
         ELSE IF isReactFeatureApp(w.state.featureApp)
              THEN LET c == [w EXCEPT !.renderCalls = @ + 1] IN
                   IF env.renderThrows
                   THEN [c EXCEPT !.thrown = RenderError]
                   ELSE [c EXCEPT !.lastRender =
                             children("featureApp", "none", w.state.loading)]
              ELSE [w EXCEPT !.lastRender =
                        children("div", "none", w.state.loading)]
    ELSE IF "featureAppError" \in DOMAIN w.state
         THEN [w EXCEPT !.lastRender = renderError(w.state.featureAppError)]
         ELSE IF isReactFeatureApp(w.state.featureApp)
              THEN LET c == [w EXCEPT !.renderCalls = @ + 1] IN
                   IF env.renderThrows
                   THEN LET h == handleError(c, RenderError) IN
                        IF Threw(h) THEN h
                        ELSE [h EXCEPT !.lastRender =
                                  renderError(RenderError)]
                   ELSE [c EXCEPT !.lastRender = [view |-> "featureApp"]]
              ELSE [w EXCEPT !.lastRender = [view |-> "div"]]

\* React commits a completed render: the ref follows the rendered <div>.
commit(w) ==
    IF Threw(w) THEN w
    ELSE [w EXCEPT !.containerRef =
              IF ContainsDiv(w.lastRender) THEN "div" ELSE "null"]

\* setState that replaces a Ready state instead of merging into this.state.
setState_Replaces(w, partial) ==
    IF ~w.mounted
    THEN w
    ELSE commit(render([w EXCEPT !.state =
             IF "loading" \in DOMAIN partial
             THEN [featureApp |-> w.state.featureApp,
                   loading |-> partial.loading]
             ELSE [k \in DOMAIN w.state \cup DOMAIN partial |->
                      IF k \in DOMAIN partial THEN partial[k] ELSE w.state[k]]]))

\* React's setState: the partial state is merged into this.state and the
\* component renders again; on an unmounted component it does nothing.
setState(w, partial) ==
    IF ~w.mounted
    THEN w
    ELSE commit(render([w EXCEPT !.state =
             [k \in DOMAIN w.state \cup DOMAIN partial |->
                 IF k \in DOMAIN partial THEN partial[k] ELSE w.state[k]]]))

\* constructor: the catch block.
constructorCatch(w, error) ==
    LET h == handleError(w, error) IN
    IF Threw(h) THEN h ELSE [h EXCEPT !.state = [featureAppError |-> error]]

\* constructor without its try/catch.
constructor_NoCatch(w) ==
    IF env.create = "throws"
    THEN [w EXCEPT !.thrown = CreationError]
    ELSE LET s == [w EXCEPT !.featureAppScope = "scope"] IN
         IF ~isFeatureApp(env.featureApp)
         THEN [s EXCEPT !.thrown = InvalidFeatureAppError]
         ELSE [s EXCEPT !.state =
                  [featureApp |-> env.featureApp, loading |-> TRUE]]

\* constructor that hands a DOM Feature App a container right away.
constructor_Attaches(w) ==
    IF env.create = "throws"
    THEN constructorCatch(w, CreationError)
    ELSE LET s == [w EXCEPT !.featureAppScope = "scope"] IN
         IF ~isFeatureApp(env.featureApp)
         THEN constructorCatch(s, InvalidFeatureAppError)
         ELSE [s EXCEPT !.state =
                  [featureApp |-> env.featureApp, loading |-> TRUE],
                  !.attachCalls =
                      IF isDomFeatureApp(env.featureApp)
                      THEN Append(@, [container |-> "div",
                                      mounted |-> FALSE])
                      ELSE @]

\* constructor without the isFeatureApp check.
constructor_NoValidation(w) ==
    IF env.create = "throws"
    THEN constructorCatch(w, CreationError)
    ELSE [w EXCEPT !.featureAppScope = "scope",
                   !.state = [featureApp |-> env.featureApp, loading |-> TRUE]]

\* constructor
constructor(w) ==
    IF env.create = "throws"
    THEN constructorCatch(w, CreationError)
    ELSE LET s == [w EXCEPT !.featureAppScope = "scope"] IN
         IF ~isFeatureApp(env.featureApp)
         THEN constructorCatch(s, InvalidFeatureAppError)
         ELSE [s EXCEPT !.state =
                  [featureApp |-> env.featureApp, loading |-> TRUE]]

\* componentDidCatch that reports the error and keeps the state.
componentDidCatch_NoSetState(w, error) == handleError(w, error)

\* componentDidCatch
componentDidCatch(w, error) ==
    LET h == handleError(w, error) IN
    IF Threw(h) THEN h ELSE setState(h, [featureAppError |-> error])

\* The attach step without its try/catch.
attach_NoCatch(w, cont) ==
    IF /\ cont # "null"
       /\ "featureApp" \in DOMAIN w.state
       /\ isDomFeatureApp(w.state.featureApp)
    THEN LET a == [w EXCEPT !.attachCalls =
                      Append(@, [container |-> cont, mounted |-> w.mounted])]
         IN IF env.attachThrows THEN [a EXCEPT !.thrown = AttachError] ELSE a
    ELSE w

\* componentDidMount, from the attach condition to the end.
attach(w, cont) ==
    IF /\ cont # "null"
       /\ "featureApp" \in DOMAIN w.state
       /\ isDomFeatureApp(w.state.featureApp)
    THEN LET a == [w EXCEPT !.attachCalls =
                      Append(@, [container |-> cont, mounted |-> w.mounted])]
         IN IF env.attachThrows THEN componentDidCatch(a, AttachError) ELSE a
    ELSE w

\* componentDidMount, from the settling of loadingPromise to the end.
afterLoading(w, rejected, cont) ==
    LET c == IF rejected THEN componentDidCatch(w, ReadinessError) ELSE w
        l == IF Threw(c) THEN c ELSE setState(c, [loading |-> FALSE])
    IN IF Threw(l) THEN l ELSE attach(l, cont)

\* componentWillUnmount without the check of this.featureAppScope.
componentWillUnmount_NoGuard(w) ==
    LET r == [w EXCEPT !.releaseCalls = @ + 1] IN
    IF env.releaseThrows THEN handleError(r, ReleaseError) ELSE r

\* componentWillUnmount that swallows what handleError throws.
componentWillUnmount_SwallowsHandler(w) ==
    IF w.featureAppScope # "none"
    THEN LET r == [w EXCEPT !.releaseCalls = @ + 1] IN
         IF env.releaseThrows
         THEN [handleError(r, ReleaseError) EXCEPT !.thrown = "none"]
         ELSE r
    ELSE w

\* componentWillUnmount without its try/catch.
componentWillUnmount_NoTry(w) ==
    IF w.featureAppScope # "none"
    THEN LET r == [w EXCEPT !.releaseCalls = @ + 1] IN
         IF env.releaseThrows THEN [r EXCEPT !.thrown = ReleaseError] ELSE r
    ELSE w

\* componentWillUnmount
componentWillUnmount(w) ==
    IF w.featureAppScope # "none"
    THEN LET r == [w EXCEPT !.releaseCalls = @ + 1] IN
         IF env.releaseThrows THEN handleError(r, ReleaseError) ELSE r
    ELSE w

\* The fields of the instance after a method ran.
Store(w) ==
    /\ state' = w.state
    /\ containerRef' = w.containerRef
    /\ lastRender' = w.lastRender
    /\ onErrorCalls' = w.onErrorCalls
    /\ loggerCalls' = w.loggerCalls
    /\ routed' = w.routed
    /\ renderCalls' = w.renderCalls
    /\ attachCalls' = w.attachCalls
    /\ releaseCalls' = w.releaseCalls
    /\ featureAppScope' = w.featureAppScope

\* An exception that leaves a method React called reaches the host tree.
Escape(w, site) ==
    escaped' = IF w.thrown # "none"
               THEN Append(escaped, [site |-> site, error |-> w.thrown])
               ELSE escaped

----------------------------------------------------------------------------
(* The lifecycle *)

Init ==
    /\ props \in PropsSet
    /\ env \in EnvSet
    /\ pc = "init"
    /\ didMount = "notStarted"
    /\ container = "null"
    /\ featureAppScope = "none"
    /\ state = NoState
    /\ containerRef = "null"
    /\ lastRender = NotRendered
    /\ onErrorCalls = <<>>
    /\ loggerCalls = <<>>
    /\ routed = <<>>
    /\ renderCalls = 0
    /\ attachCalls = <<>>
    /\ createCalls = 0
    /\ releaseCalls = 0
    /\ escaped = <<>>
    /\ rejection = "none"
    /\ rerenders = 0
    /\ loader = [pc |-> "absent"]
    /\ registry = [phase |-> "absent"]

\* new InternalFeatureAppContainer(props).  An instance whose constructor
\* throws is discarded.
Constructor ==
    /\ pc = "init"
    /\ createCalls' = createCalls + 1
    /\ LET w == constructor(This(FALSE)) IN
          /\ Store(w)
          /\ Escape(w, "constructor")
          /\ pc' = IF Threw(w) THEN "discarded" ELSE "constructed"
    /\ UNCHANGED <<loader, registry>>
    /\ UNCHANGED <<props, env, didMount, container, rejection, rerenders>>

\* The first render.  An instance whose first render throws is never
\* mounted and never unmounted.
Render ==
    /\ pc = "constructed"
    /\ LET w == commit(render(This(FALSE))) IN
          /\ Store(w)
          /\ Escape(w, "render")
          /\ pc' = IF Threw(w) THEN "discarded" ELSE "rendered"
    /\ UNCHANGED <<loader, registry>>
    /\ UNCHANGED <<props, env, didMount, container,
                   createCalls, rejection, rerenders>>

\* componentDidMount up to its await, or to its end when it does not await.
\* It is an async function: what it throws rejects its promise.
ComponentDidMount ==
    /\ pc = "rendered"
    /\ pc' = "mounted"
    /\ container' = containerRef
    /\ IF "featureApp" \in DOMAIN state /\ env.loadingPromise
       THEN /\ didMount' = "awaiting"
            /\ UNCHANGED <<state, containerRef, lastRender, onErrorCalls,
                           loggerCalls, routed, renderCalls, attachCalls,
                           releaseCalls, featureAppScope, rejection>>
       ELSE LET w == attach(This(TRUE), containerRef) IN
            /\ Store(w)
            /\ rejection' = w.thrown
            /\ didMount' = IF Threw(w) THEN "rejected" ELSE "done"
    /\ UNCHANGED <<loader, registry>>
    /\ UNCHANGED <<props, env, createCalls, escaped, rerenders>>

\* loadingPromise settles: componentDidMount resumes, whether or not the
\* component is still mounted.
LoadingSettled(rejected) ==
    /\ didMount = "awaiting"
    /\ LET w == afterLoading(This(pc = "mounted"), rejected, container) IN
          /\ Store(w)
          /\ rejection' = w.thrown
          /\ didMount' = IF Threw(w) THEN "rejected" ELSE "done"
    /\ UNCHANGED <<loader, registry>>
    /\ UNCHANGED <<props, env, pc, container, createCalls,
                   escaped, rerenders>>

\* React reports an error of the rendered Feature App subtree.
SubtreeThrows ==
    /\ pc = "mounted"
    /\ escaped = <<>>
    /\ ContainsFeatureApp(lastRender)
    /\ LET w == componentDidCatch(This(TRUE), SubtreeError) IN
          /\ Store(w)
          /\ Escape(w, "componentDidCatch")
    /\ UNCHANGED <<loader, registry>>
    /\ UNCHANGED <<props, env, pc, didMount, container,
                   createCalls, rejection, rerenders>>

\* The parent renders the Container again.
ReRender ==
    /\ pc = "mounted"
    /\ escaped = <<>>
    /\ rerenders < MaxReRenders
    /\ rerenders' = rerenders + 1
    /\ LET w == commit(render(This(TRUE))) IN
          /\ Store(w)
          /\ Escape(w, "render")
    /\ UNCHANGED <<loader, registry>>
    /\ UNCHANGED <<props, env, pc, didMount, container,
                   createCalls, rejection>>

\* componentWillUnmount
ComponentWillUnmount ==
    /\ pc = "mounted"
    /\ pc' = "unmounted"
    /\ LET w == componentWillUnmount(This(TRUE)) IN
          /\ Store(w)
          /\ Escape(w, "componentWillUnmount")
    /\ UNCHANGED <<loader, registry>>
    /\ UNCHANGED <<props, env, didMount, container,
                   createCalls, rejection, rerenders>>

Next ==
    \/ Constructor
    \/ Render
    \/ ComponentDidMount
    \/ \E rejected \in BOOLEAN : LoadingSettled(rejected)
    \/ SubtreeThrows
    \/ ReRender
    \/ ComponentWillUnmount

Spec == Init /\ [][Next]_vars

----------------------------------------------------------------------------
(* InternalFeatureAppLoader (feature-app-loader.tsx).  The variable       *)
(* loader holds one instance together with what it acts upon: its props,  *)
(* the environment, the resolver of the Feature App manager, the          *)
(* document head, and the hooks of a server-side rendering pass.          *)

\* What the resolver of the Feature App manager reports for a url.
ResolutionError == "EResolution"

NoSrcError == "No src provided."

FeatureAppDefinition == "definition"

\* The element the Loader renders once it has a definition.
FeatureAppContainerElement == [view |-> "FeatureAppContainer"]

BaseUrls == {"none", "/base"}

AbsoluteUrls == {"http://cdn/b.css"}

\* An optional css list that is undefined.
NoCss == [defined |-> FALSE, items |-> <<>>]

\* The css prop: undefined, or a list of {href, media} that may repeat an
\* href.
CssSet ==
    {NoCss} \cup
    [defined : {TRUE},
     items : {<<[href |-> "a.css", media |-> "undefined"]>>,
              <<[href |-> "a.css", media |-> "undefined"],
                [href |-> "a.css", media |-> "print"]>>,
              <<[href |-> "a.css", media |-> "print"],
                [href |-> "http://cdn/b.css", media |-> "undefined"]>>}]

LoaderPropsSet ==
    [onError : {"none", "returns", "throws"}, renderError : BOOLEAN,
     baseUrl : BaseUrls, css : CssSet, asyncSsrManager : BOOLEAN,
     addUrlForHydration : BOOLEAN, addStylesheetsForSsr : BOOLEAN]

\* inBrowser, whether the src of this environment is given, and what
\* getAsyncFeatureAppDefinition returns synchronously.
LoaderEnvSet ==
    [inBrowser : BOOLEAN, src : BOOLEAN,
     resolved : {"error", "value", "promise"}]

\* A url under a base url: relative urls are prefixed, absolute ones and
\* urls without a base url are left alone.
prependBaseUrl(baseUrl, url) ==
    IF baseUrl = "none" \/ url \in AbsoluteUrls
    THEN [base |-> "", path |-> url]
    ELSE [base |-> baseUrl, path |-> url]

\* The instance after its field initialisers: state = {}, errorHandled =
\* false, mounted = false.
LoaderThis(p, e) ==
    [pc |-> "init", props |-> p, env |-> e, state |-> NoState,
     errorHandled |-> FALSE, mounted |-> FALSE, didMount |-> "notStarted",
     settled |-> "no", instances |-> 1, declaredHrefs |-> {},
     lastRender |-> NotRendered, onErrorCalls |-> <<>>, loggerCalls |-> <<>>,
     getAsyncCalls |-> <<>>, document |-> <<>>, hydrationUrls |-> <<>>,
     ssrStylesheets |-> <<>>, scheduledRerenders |-> 0, escaped |-> <<>>,
     rerenders |-> 0, thrown |-> "none"]

\* logError: logger.error(message, error).
logError(l, error) == [l EXCEPT !.loggerCalls = Append(@, error)]

\* handleError of the Loader without the errorHandled flag.
loaderHandleError_EveryTime(l, error) ==
    IF l.props.onError # "none"
    THEN [l EXCEPT !.onErrorCalls = Append(@, error),
                   !.thrown = IF l.props.onError = "throws"
                              THEN HandlerError ELSE "none"]
    ELSE logError(l, error)

\* handleError of the Loader: once per instance, onError or else the logger.
loaderHandleError(l, error) ==
    IF l.errorHandled
    THEN l
    ELSE LET h == [l EXCEPT !.errorHandled = TRUE] IN
         IF l.props.onError # "none"
         THEN [h EXCEPT !.onErrorCalls = Append(@, error),
                        !.thrown = IF l.props.onError = "throws"
                                   THEN HandlerError ELSE "none"]
         ELSE logError(h, error)

\* prependCssHrefs: the css prop with every href under the base url.
prependCssHrefs(l) ==
    IF ~l.props.css.defined
    THEN NoCss
    ELSE [defined |-> TRUE,
          items |-> [i \in DOMAIN l.props.css.items |->
             [href |-> prependBaseUrl(l.props.baseUrl,
                                      l.props.css.items[i].href),
              media |-> l.props.css.items[i].media]]]

\* document.querySelector('link[href="..."]') finds an element.
HasLink(doc, href) == \E i \in DOMAIN doc : doc[i].href = href

\* The loop of appendCss without the look into the document.
RECURSIVE appendLinks_NoQuery(_, _, _)
appendLinks_NoQuery(doc, css, i) ==
    IF i > Len(css)
    THEN doc
    ELSE appendLinks_NoQuery(
             Append(doc, [rel |-> "stylesheet", href |-> css[i].href,
                          media |-> IF css[i].media = "undefined"
                                    THEN "all" ELSE css[i].media]),
             css, i + 1)

\* The loop of appendCss over css[i..]: a link element is appended for an
\* href the document does not have yet.
RECURSIVE appendLinks(_, _, _)
appendLinks(doc, css, i) ==
    IF i > Len(css)
    THEN doc
    ELSE appendLinks(
             IF HasLink(doc, css[i].href)
             THEN doc
             ELSE Append(doc, [rel |-> "stylesheet", href |-> css[i].href,
                               media |-> IF css[i].media = "undefined"
                                         THEN "all" ELSE css[i].media]),
             css, i + 1)

\* appendCss.
appendCss(l) ==
    LET css == prependCssHrefs(l) IN
    IF ~css.defined
    THEN l
    ELSE [l EXCEPT !.document = appendLinks(l.document, css.items, 1)]

\* render that looks at the definition before the error.
loaderRender_DefinitionFirst(l) ==
    IF "featureAppDefinition" \in DOMAIN l.state
    THEN [l EXCEPT !.lastRender = FeatureAppContainerElement]
    ELSE IF "error" \in DOMAIN l.state
         THEN IF "failedToHandleAsyncError" \in DOMAIN l.state
              THEN [l EXCEPT !.thrown = l.state.error]
              ELSE [l EXCEPT !.lastRender =
                       IF l.props.renderError
                       THEN [view |-> "renderError", error |-> l.state.error]
                       ELSE Null]
         ELSE [l EXCEPT !.lastRender = Null]

\* render of the Loader.
loaderRender(l) ==
    IF "error" \in DOMAIN l.state
    THEN IF "failedToHandleAsyncError" \in DOMAIN l.state
         THEN [l EXCEPT !.thrown = l.state.error]
         ELSE [l EXCEPT !.lastRender =
                  IF l.props.renderError
                  THEN [view |-> "renderError", error |-> l.state.error]
                  ELSE Null]
    ELSE IF "featureAppDefinition" \notin DOMAIN l.state
         THEN [l EXCEPT !.lastRender = Null]
         ELSE [l EXCEPT !.lastRender = FeatureAppContainerElement]

\* setState that replaces the state of the Loader by the partial state.
loaderSetState_Replaces(l, partial) ==
    loaderRender([l EXCEPT !.state = partial])

\* this.setState(partial) of a mounted Loader, after an await: the state is
\* merged and the instance renders again before setState returns; what that
\* render throws comes out of setState.
loaderSetState(l, partial) ==
    loaderRender([l EXCEPT !.state =
        [k \in DOMAIN l.state \cup DOMAIN partial |->
            IF k \in DOMAIN partial THEN partial[k] ELSE l.state[k]]])

\* constructor of the Loader, from the call of the resolver on.  The src
\* is the src prop in the browser and the serverSrc prop elsewhere.
resolveAtConstruction(l) ==
    LET r == [l EXCEPT !.getAsyncCalls =
                 Append(@, prependBaseUrl(l.props.baseUrl,
                     IF l.env.inBrowser THEN "src" ELSE "serverSrc"))] IN
    IF l.env.resolved = "error"
    THEN LET h == loaderHandleError(r, ResolutionError) IN
         IF Threw(h) THEN h
         ELSE [h EXCEPT !.state = [error |-> ResolutionError]]
    ELSE IF l.env.resolved = "value"
         THEN [r EXCEPT !.state =
                  [featureAppDefinition |-> FeatureAppDefinition]]
         ELSE IF ~l.env.inBrowser /\ l.props.asyncSsrManager
              THEN [r EXCEPT !.scheduledRerenders = @ + 1]
              ELSE r

\* constructor of the Loader.
loaderConstructor(l) ==
    IF ~l.env.src
    THEN IF l.env.inBrowser THEN [l EXCEPT !.thrown = NoSrcError] ELSE l
    ELSE LET a == IF ~l.env.inBrowser /\ l.props.addUrlForHydration
                  THEN [l EXCEPT !.hydrationUrls =
                           Append(@, prependBaseUrl(l.props.baseUrl, "src"))]
                  ELSE l
             b == IF ~l.env.inBrowser /\ l.props.addStylesheetsForSsr
                     /\ prependCssHrefs(a).defined
                  THEN [a EXCEPT !.ssrStylesheets =
                           Append(@, prependCssHrefs(a).items)]
                  ELSE a
         IN resolveAtConstruction(b)

\* handleAsyncError that stores what the handler threw without the
\* failedToHandleAsyncError flag.
handleAsyncError_NoFlag(l, error) ==
    LET h == loaderHandleError(l, error)
        t == IF Threw(h) \/ ~h.mounted
             THEN h
             ELSE loaderSetState(h, [error |-> error])
    IN IF Threw(t)
       THEN IF t.mounted
            THEN loaderSetState([t EXCEPT !.thrown = "none"],
                     [error |-> t.thrown])
            ELSE [t EXCEPT !.thrown = "none"]
       ELSE t

\* handleAsyncError without the mounted checks.
handleAsyncError_NoMountedCheck(l, error) ==
    LET h == loaderHandleError(l, error)
        t == IF Threw(h) THEN h ELSE loaderSetState(h, [error |-> error])
    IN IF Threw(t)
       THEN loaderSetState([t EXCEPT !.thrown = "none"],
                [error |-> t.thrown, failedToHandleAsyncError |-> TRUE])
       ELSE t

\* handleAsyncError: the try block, then the catch block on what it threw.
handleAsyncError(l, error) ==
    LET h == loaderHandleError(l, error)
        t == IF Threw(h) \/ ~h.mounted
             THEN h
             ELSE loaderSetState(h, [error |-> error])
    IN IF Threw(t)
       THEN IF t.mounted
            THEN loaderSetState([t EXCEPT !.thrown = "none"],
                     [error |-> t.thrown, failedToHandleAsyncError |-> TRUE])
            ELSE [t EXCEPT !.thrown = "none"]
       ELSE t

\* componentDidMount of the Loader up to its await.
loaderComponentDidMount(l) ==
    LET m == appendCss([l EXCEPT !.mounted = TRUE]) IN
    IF "featureAppDefinition" \in DOMAIN m.state
    THEN [m EXCEPT !.didMount = "done"]
    ELSE [m EXCEPT !.didMount = "awaiting",
                   !.getAsyncCalls =
                       Append(@, prependBaseUrl(l.props.baseUrl, "src"))]

\* componentDidMount after its await that drops a resolved definition.
afterResolution_DropsDefinition(l, rejected) ==
    LET d == [l EXCEPT !.didMount = "done",
                       !.settled = IF rejected THEN "rejected"
                                   ELSE "resolved"] IN
    IF rejected
    THEN handleAsyncError(d, ResolutionError)
    ELSE d

\* componentDidMount of the Loader after its await.
afterResolution(l, rejected) ==
    LET d == [l EXCEPT !.didMount = "done",
                       !.settled = IF rejected THEN "rejected"
                                   ELSE "resolved"] IN
    IF rejected
    THEN handleAsyncError(d, ResolutionError)
    ELSE IF d.mounted
         THEN loaderSetState(d,
                  [featureAppDefinition |-> FeatureAppDefinition])
         ELSE d

\* componentWillUnmount of the Loader.
loaderComponentWillUnmount(l) == [l EXCEPT !.mounted = FALSE]

\* An exception that leaves the instance reaches its host.
loaderEscape(l, site) ==
    IF Threw(l)
    THEN [l EXCEPT !.escaped = Append(@, [site |-> site, error |-> l.thrown]),
                   !.thrown = "none"]
    ELSE l

\* The hrefs that the css prop of the instance declares, under its base
\* url.
DeclaredHrefs(l) ==
    {prependBaseUrl(l.props.baseUrl, l.props.css.items[i].href) :
        i \in DOMAIN l.props.css.items}

\* The Container of the first part is not involved.
containerVars ==
    <<props, env, pc, didMount, container, featureAppScope, state,
      containerRef, lastRender, onErrorCalls, loggerCalls, routed,
      renderCalls, attachCalls, createCalls, releaseCalls, escaped,
      rejection, rerenders>>

\* No Container is involved.
ContainerAbsent ==
    /\ props = [onError |-> "none", renderError |-> FALSE, children |-> "none"]
    /\ env = CHOOSE e \in EnvSet : TRUE
    /\ pc = "absent"
    /\ didMount = "notStarted"
    /\ container = "null"
    /\ featureAppScope = "none"
    /\ state = NoState
    /\ containerRef = "null"
    /\ lastRender = NotRendered
    /\ onErrorCalls = <<>>
    /\ loggerCalls = <<>>
    /\ routed = <<>>
    /\ renderCalls = 0
    /\ attachCalls = <<>>
    /\ createCalls = 0
    /\ releaseCalls = 0
    /\ escaped = <<>>
    /\ rejection = "none"
    /\ rerenders = 0

LoaderInit ==
    /\ ContainerAbsent
    /\ registry = [phase |-> "absent"]
    /\ \E p \in LoaderPropsSet, e \in LoaderEnvSet : loader = LoaderThis(p, e)

\* new InternalFeatureAppLoader(props).  An instance whose constructor
\* throws is discarded.
LoaderConstructor ==
    /\ loader.pc = "init"
    /\ LET w == loaderConstructor(loader) IN
       loader' = [loaderEscape(w, "constructor") EXCEPT
                     !.pc = IF Threw(w) THEN "discarded" ELSE "constructed"]
    /\ UNCHANGED <<containerVars, registry>>

\* The first render.
LoaderRender ==
    /\ loader.pc = "constructed"
    /\ LET w == loaderRender(loader) IN
       loader' = [loaderEscape(w, "render") EXCEPT
                     !.pc = IF Threw(w) THEN "discarded" ELSE "rendered"]
    /\ UNCHANGED <<containerVars, registry>>

\* The commit in the browser: componentDidMount runs to its await or to
\* its early return.  A server-side rendering pass never mounts.
LoaderComponentDidMount ==
    /\ loader.pc = "rendered"
    /\ loader.env.inBrowser
    /\ loader' = [loaderComponentDidMount(loader) EXCEPT
                     !.pc = "mounted",
                     !.declaredHrefs = @ \cup DeclaredHrefs(loader)]
    /\ UNCHANGED <<containerVars, registry>>

\* The promise of the resolver settles and componentDidMount resumes,
\* whether or not the instance is still mounted.
ResolutionSettled(rejected) ==
    /\ loader.pc \in {"mounted", "unmounted"}
    /\ loader.didMount = "awaiting"
    /\ loader' = loaderEscape(afterResolution(loader, rejected), "render")
    /\ UNCHANGED <<containerVars, registry>>

\* The parent renders again.
LoaderReRender ==
    /\ loader.pc = "mounted"
    /\ loader.escaped = <<>>
    /\ loader.rerenders < MaxReRenders
    /\ loader' = loaderEscape(
                     loaderRender([loader EXCEPT !.rerenders = @ + 1]),
                     "render")
    /\ UNCHANGED <<containerVars, registry>>

\* The Loader is unmounted.
LoaderComponentWillUnmount ==
    /\ loader.pc = "mounted"
    /\ loader' = [loaderComponentWillUnmount(loader) EXCEPT
                     !.pc = "unmounted"]
    /\ UNCHANGED <<containerVars, registry>>

LoaderNext ==
    \/ LoaderConstructor
    \/ LoaderRender
    \/ LoaderComponentDidMount
    \/ \E rejected \in BOOLEAN : ResolutionSettled(rejected)
    \/ LoaderReRender
    \/ LoaderComponentWillUnmount

SpecLoader == LoaderInit /\ [][LoaderNext]_vars

\* A Container on its own, or a Loader on its own.
EitherInit == Init \/ LoaderInit

EitherNext == Next \/ LoaderNext

SpecEither == EitherInit /\ [][EitherNext]_vars

\* Loader instances that one document sees in a row.
MaxInstances == 2

\* After the instance is gone another Loader, with props of its own, is
\* constructed in the same environment and the same document.  The hooks
\* of the server-side rendering pass come from the FeatureHubContext and
\* are those of the earlier instance.
NewLoader ==
    /\ loader.pc \in {"unmounted", "discarded"}
    /\ loader.instances < MaxInstances
    /\ \E p \in LoaderPropsSet :
          /\ p.asyncSsrManager = loader.props.asyncSsrManager
          /\ p.addUrlForHydration = loader.props.addUrlForHydration
          /\ p.addStylesheetsForSsr = loader.props.addStylesheetsForSsr
          /\ loader' = [LoaderThis(p, loader.env) EXCEPT
                        !.document = loader.document,
                        !.declaredHrefs = loader.declaredHrefs,
                        !.instances = loader.instances + 1]
    /\ UNCHANGED <<containerVars, registry>>

LoaderDocumentNext ==
    \/ LoaderConstructor
    \/ LoaderRender
    \/ LoaderComponentDidMount
    \/ \E rejected \in BOOLEAN : ResolutionSettled(rejected)
    \/ LoaderReRender
    \/ LoaderComponentWillUnmount
    \/ NewLoader

SpecLoaderDocument == LoaderInit /\ [][LoaderDocumentNext]_vars

----------------------------------------------------------------------------
(* The serialized-state manager.  A string is a sequence of characters;   *)
(* the manager of the server serializes the states of its consumers into  *)
(* one string, which the integrator hands to the manager of the browser.  *)

\* The consumer ids the binder is called with.
ConsumerIds == {<<"c", ":", "1">>, <<"c", ":", "2">>}

\* What the serializers of the consumers return.
StateStrings ==
    {<<"a">>, <<"\"", "}">>, <<"%", "2", "2">>, <<"\\">>, <<"#", ",", ":">>}

\* The result of a lookup that finds nothing.
Undefined == [defined |-> FALSE, value |-> <<>>]

\* The characters encodeURI escapes, among those that occur.
EscapedChars == {"%", "\"", "\\", "{", "}"}

\* encodeURI of one character.
PercentEncoded(c) ==
    CASE c = "%" -> <<"%", "2", "5">>
      [] c = "\"" -> <<"%", "2", "2">>
      [] c = "\\" -> <<"%", "5", "C">>
      [] c = "{" -> <<"%", "7", "B">>
      [] c = "}" -> <<"%", "7", "D">>
      [] OTHER -> <<c>>

\* The escapes of reserved characters (# , :), which decodeURI leaves as
\* they are.
ReservedEscapes ==
    {<<"%", "2", "3">>, <<"%", "2", "C">>, <<"%", "3", "A">>}

\* What decodeURI throws.
URIError == <<"URIError">>

\* encodeURI
RECURSIVE encodeURI(_)
encodeURI(s) ==
    IF s = <<>> THEN <<>> ELSE PercentEncoded(Head(s)) \o encodeURI(Tail(s))

\* Characters in front of the decoded rest, unless the rest is malformed.
DecodedBefore(chars, rest) ==
    IF rest = URIError THEN URIError ELSE chars \o rest

\* decodeURI: an escape becomes its character, the escape of a reserved
\* character stays, any other use of % is malformed.
RECURSIVE decodeURI(_)
decodeURI(s) ==
    IF s = <<>>
    THEN <<>>
    ELSE IF Head(s) # "%"
         THEN DecodedBefore(<<Head(s)>>, decodeURI(Tail(s)))
         ELSE IF Len(s) < 3
              THEN URIError
              ELSE LET escape == SubSeq(s, 1, 3)
                       rest == decodeURI(SubSeq(s, 4, Len(s)))
                   IN IF \E c \in EscapedChars : PercentEncoded(c) = escape
                      THEN DecodedBefore(
                               <<CHOOSE c \in EscapedChars :
                                    PercentEncoded(c) = escape>>, rest)
                      ELSE IF escape \in ReservedEscapes
                           THEN DecodedBefore(escape, rest)
                           ELSE URIError

\* JSON.stringify of the characters of a string: " and \ get a backslash.
RECURSIVE jsonEscape(_)
jsonEscape(s) ==
    IF s = <<>>
    THEN <<>>
    ELSE (IF Head(s) \in {"\"", "\\"} THEN <<"\\", Head(s)>> ELSE <<Head(s)>>)
         \o jsonEscape(Tail(s))

\* JSON.stringify of a string.
jsonString(s) == <<"\"">> \o jsonEscape(s) \o <<"\"">>

\* JSON.stringify of the members of an object from member i on.
RECURSIVE jsonMembers(_, _)
jsonMembers(members, i) ==
    IF i > Len(members)
    THEN <<>>
    ELSE jsonString(members[i].id) \o <<":">> \o jsonString(members[i].state)
         \o (IF i < Len(members) THEN <<",">> ELSE <<>>)
         \o jsonMembers(members, i + 1)

\* JSON.stringify of an object whose values are strings.
JSONstringify(members) == <<"{">> \o jsonMembers(members, 1) \o <<"}">>

\* JSON.parse: the characters of a string from position i, after its
\* opening quote, to its closing quote.
RECURSIVE readString(_, _, _)
readString(s, i, acc) ==
    IF i > Len(s)
    THEN [ok |-> FALSE, value |-> <<>>, next |-> 0]
    ELSE IF s[i] = "\""
         THEN [ok |-> TRUE, value |-> acc, next |-> i + 1]
         ELSE IF s[i] = "\\"
              THEN IF i + 1 <= Len(s) /\ s[i + 1] \in {"\"", "\\"}
                   THEN readString(s, i + 2, Append(acc, s[i + 1]))
                   ELSE [ok |-> FALSE, value |-> <<>>, next |-> 0]
              ELSE readString(s, i + 1, Append(acc, s[i]))

\* JSON.parse: the members of an object from position i to its closing
\* brace.
RECURSIVE readMembers(_, _, _)
readMembers(s, i, acc) ==
    IF i > Len(s) \/ s[i] # "\""
    THEN [ok |-> FALSE, members |-> <<>>]
    ELSE LET k == readString(s, i + 1, <<>>) IN
         IF \/ ~k.ok
            \/ k.next + 1 > Len(s)
            \/ s[k.next] # ":"
            \/ s[k.next + 1] # "\""
         THEN [ok |-> FALSE, members |-> <<>>]
         ELSE LET v == readString(s, k.next + 2, <<>>) IN
              IF ~v.ok \/ v.next > Len(s)
              THEN [ok |-> FALSE, members |-> <<>>]
              ELSE LET m == Append(acc, [id |-> k.value, state |-> v.value])
                   IN IF s[v.next] = "}"
                      THEN IF v.next = Len(s)
                           THEN [ok |-> TRUE, members |-> m]
                           ELSE [ok |-> FALSE, members |-> <<>>]
                      ELSE IF s[v.next] = ","
                           THEN readMembers(s, v.next + 1, m)
                           ELSE [ok |-> FALSE, members |-> <<>>]

\* JSON.parse of an object whose values are strings.
JSONparse(s) ==
    IF s = <<"{", "}">>
    THEN [ok |-> TRUE, members |-> <<>>]
    ELSE IF Len(s) > 0 /\ s[1] = "{"
         THEN readMembers(s, 2, <<>>)
         ELSE [ok |-> FALSE, members |-> <<>>]

\* A manager after create: no serializer, no inbound mapping.
NewRegistry ==
    [order |-> <<>>, serializers |-> [c \in {} |-> <<>>],
     inbound |-> [defined |-> FALSE, members |-> <<>>], thrown |-> "none"]

\* register that also puts the state into the inbound mapping.
register_PopulatesInbound(r, consumerId, s) ==
    [r EXCEPT !.order = IF consumerId \in DOMAIN r.serializers
                        THEN @ ELSE Append(@, consumerId),
              !.serializers = [c \in DOMAIN @ \cup {consumerId} |->
                                  IF c = consumerId THEN s ELSE @[c]],
              !.inbound = [defined |-> TRUE,
                           members |-> Append(@.members,
                               [id |-> consumerId, state |-> s])]]

\* register(serializer), bound to a consumer id: the last serializer wins,
\* the order of the first registrations is kept.  A serializer is the
\* string it returns.
register(r, consumerId, s) ==
    [r EXCEPT !.order = IF consumerId \in DOMAIN r.serializers
                        THEN @ ELSE Append(@, consumerId),
              !.serializers = [c \in DOMAIN @ \cup {consumerId} |->
                                  IF c = consumerId THEN s ELSE @[c]]]

\* serializeStates without the percent-encoding.
serializeStates_NoEncoding(r) ==
    JSONstringify([i \in DOMAIN r.order |->
                      [id |-> r.order[i],
                       state |-> r.serializers[r.order[i]]]])

\* serializeStates: the states of the consumers in registration order, as
\* an encoded JSON object.
serializeStates(r) ==
    encodeURI(JSONstringify([i \in DOMAIN r.order |->
                                [id |-> r.order[i],
                                 state |-> r.serializers[r.order[i]]]]))

\* setSerializedStates: the decoded and parsed blob replaces the inbound
\* mapping; a malformed blob throws.
setSerializedStates(r, blob) ==
    LET decoded == decodeURI(blob) IN
    IF decoded = URIError
    THEN [r EXCEPT !.thrown = "URIError"]
    ELSE LET parsed == JSONparse(decoded) IN
         IF ~parsed.ok
         THEN [r EXCEPT !.thrown = "SyntaxError"]
         ELSE [r EXCEPT !.inbound =
                  [defined |-> TRUE, members |-> parsed.members]]

\* The last member of the inbound mapping with an id, or 0.
LastMember(members, consumerId) ==
    LET found == {i \in DOMAIN members : members[i].id = consumerId} IN
    IF found = {} THEN 0
    ELSE CHOOSE i \in found : \A j \in found : j <= i

\* getSerializedState, bound to a consumer id.
getSerializedState(r, consumerId) ==
    IF ~r.inbound.defined \/ LastMember(r.inbound.members, consumerId) = 0
    THEN Undefined
    ELSE [defined |-> TRUE,
          value |-> r.inbound.members[
                        LastMember(r.inbound.members, consumerId)].state]

\* Calls of register in one behaviour.
MaxRegisterCalls == 3

RegistryInit ==
    /\ ContainerAbsent
    /\ loader = [pc |-> "absent"]
    /\ registry = [phase |-> "created", server |-> NewRegistry,
                   browser |-> NewRegistry, registerCalls |-> 0,
                   setCalls |-> 0,
                   blob |-> [defined |-> FALSE, value |-> <<>>,
                             states |-> [c \in {} |-> <<>>]],
                   received |-> [c \in {} |-> <<>>],
                   lastRead |-> [read |-> FALSE, id |-> <<>>,
                                 result |-> Undefined]]

\* A consumer of the server registers a serializer.
RegisterOnServer(consumerId, s) ==
    /\ registry.registerCalls < MaxRegisterCalls
    /\ registry' = [registry EXCEPT
                       !.server = register(@, consumerId, s),
                       !.registerCalls = @ + 1]
    /\ UNCHANGED <<containerVars, loader>>

\* A consumer of the browser registers a serializer.
RegisterInBrowser(consumerId, s) ==
    /\ registry.registerCalls < MaxRegisterCalls
    /\ registry' = [registry EXCEPT
                       !.browser = register(@, consumerId, s),
                       !.registerCalls = @ + 1]
    /\ UNCHANGED <<containerVars, loader>>

\* The integrator serializes the states on the server.
SerializeStates ==
    /\ registry' = [registry EXCEPT
                       !.blob = [defined |-> TRUE,
                                 value |-> serializeStates(registry.server),
                                 states |-> registry.server.serializers]]
    /\ UNCHANGED <<containerVars, loader>>

\* The integrator hands the serialized states to the manager of the
\* browser, once.
SetSerializedStates ==
    /\ registry.blob.defined
    /\ registry.setCalls = 0
    /\ registry' = [registry EXCEPT
                       !.browser = setSerializedStates(@, registry.blob.value),
                       !.setCalls = @ + 1,
                       !.received = registry.blob.states]
    /\ UNCHANGED <<containerVars, loader>>

\* A consumer of the browser asks for its serialized state.
GetSerializedState(consumerId) ==
    /\ registry' = [registry EXCEPT
                       !.lastRead =
                           [read |-> TRUE, id |-> consumerId,
                            result |-> getSerializedState(registry.browser,
                                                          consumerId)]]
    /\ UNCHANGED <<containerVars, loader>>

RegistryNext ==
    \/ \E consumerId \in ConsumerIds, s \in StateStrings :
          RegisterOnServer(consumerId, s)
    \/ \E consumerId \in ConsumerIds, s \in StateStrings :
          RegisterInBrowser(consumerId, s)
    \/ SerializeStates
    \/ SetSerializedStates
    \/ \E consumerId \in ConsumerIds : GetSerializedState(consumerId)

SpecRegistry == RegistryInit /\ [][RegistryNext]_vars

\* The promise of the resolver always settles in the end.
SpecLoaderLive ==
    /\ LoaderInit
    /\ [][LoaderNext]_vars
    /\ WF_vars(\E rejected \in BOOLEAN : ResolutionSettled(rejected))

----------------------------------------------------------------------------
(* Properties of the Container *)

HasError == "featureAppError" \in DOMAIN state

\* The error view the props configure for an error, spelled out.
ErrorViewOf(error) ==
    IF props.children # "none"
    THEN [view |-> "children", featureApp |-> "none", error |-> error,
          loading |-> FALSE]
    ELSE IF props.renderError
         THEN [view |-> "renderError", error |-> error]
         ELSE [view |-> "null"]

\* C1: release is called at most once, never before unmount, and never
\* when createFeatureAppScope threw.
C1_ReleaseSafety ==
    /\ releaseCalls <= 1
    /\ releaseCalls > 0 => pc = "unmounted"
    /\ env.create = "throws" => releaseCalls = 0

\* A Container that went through mount, readiness and unmount, released once.
C1_Witness ==
    /\ pc = "unmounted"
    /\ didMount = "done"
    /\ env.loadingPromise
    /\ releaseCalls = 1

\* C2: a scope that createFeatureAppScope returned has been released exactly
\* once when the instance's lifetime is over (unmounted or discarded).
C2_ScopeReleasedAtEndOfLife ==
    (createCalls = 1 /\ env.create = "returns"
        /\ pc \in {"unmounted", "discarded"})
    => releaseCalls = 1

\* C3: Failed is terminal: a held error stays held, and while it is held the
\* render projection holds neither the Feature App's output nor the
\* placeholder.
C3_FailedIsTerminal ==
    /\ [][HasError => HasError']_vars
    /\ [](HasError => /\ ~ContainsFeatureApp(lastRender)
                      /\ ~ContainsDiv(lastRender))

\* A Failed Container whose readiness wait ended after the error was held
\* and that was rendered again afterwards.
C3_Witness ==
    /\ HasError
    /\ "loading" \in DOMAIN state
    /\ ~state.loading
    /\ didMount = "done"
    /\ rerenders > 0
    /\ pc = "mounted"

\* C4: every error handed to handleError reaches exactly one sink: onError
\* when it was supplied (and then never the logger), the logger otherwise.
C4_ExactlyOneSink ==
    IF props.onError # "none"
    THEN onErrorCalls = routed /\ loggerCalls = <<>>
    ELSE loggerCalls = routed /\ onErrorCalls = <<>>

\* Two errors were routed to a supplied onError.
C4_Witness ==
    /\ props.onError = "returns"
    /\ Len(routed) = 2
    /\ routed[1] # routed[2]

\* What the deprecated renderError prop alone yields for an error.
RenderErrorViewOf(error) ==
    IF props.renderError
    THEN [view |-> "renderError", error |-> error]
    ELSE [view |-> "null"]

Count(seq, x) == Cardinality({i \in DOMAIN seq : seq[i] = x})

CreationFailedNoHandler ==
    env.create = "throws" /\ props.onError = "none" /\ pc # "init"

\* C5 as stated: createFeatureAppScope throws E and no onError is supplied:
\* the logger has exactly the one call with E, nothing escapes, and every
\* render is renderError(E) if renderError is supplied and nothing otherwise.
C5_Original ==
    CreationFailedNoHandler
    => /\ loggerCalls = <<CreationError>>
       /\ escaped = <<>> /\ rejection = "none"
       /\ lastRender # NotRendered
             => lastRender = RenderErrorViewOf(CreationError)

\* C5 amended: as C5, the render being renderError(E) or nothing when no
\* children render prop is supplied and children({error: E, loading: false})
\* when one is.
C5_CreationErrorLoggedOnce ==
    CreationFailedNoHandler
    => /\ loggerCalls = <<CreationError>>
       /\ onErrorCalls = <<>>
       /\ escaped = <<>> /\ rejection = "none"
       /\ lastRender # NotRendered
             => lastRender = ErrorViewOf(CreationError)

\* A Container whose scope creation failed lived its whole life.
C5_Witness ==
    /\ CreationFailedNoHandler
    /\ pc = "unmounted"
    /\ rerenders > 0
    /\ lastRender = ErrorViewOf(CreationError)

\* C6: createFeatureAppScope throws E and onError throws E2: E2, not E,
\* escapes from the construction and the logger is never called.
C6_HandlerErrorEscapesConstruction ==
    (env.create = "throws" /\ props.onError = "throws" /\ pc # "init")
    => /\ pc = "discarded"
       /\ escaped = <<[site |-> "constructor", error |-> HandlerError]>>
       /\ onErrorCalls = <<CreationError>>
       /\ loggerCalls = <<>>

\* The construction ended with the handler's error.
C6_Witness ==
    /\ env.create = "throws"
    /\ props.onError = "throws"
    /\ pc = "discarded"
    /\ Len(escaped) = 1

InvalidCreated ==
    /\ env.create = "returns"
    /\ env.featureApp \in InvalidFeatureApps
    /\ pc # "init"

\* C7: an invalid instance: the error with the fixed message is the first
\* error routed and is routed once, the Container is Failed with it and was
\* never Ready, render and attachTo of the instance are never invoked, and
\* the render is nothing when neither renderError nor children is supplied.
C7_InvalidFeatureApp ==
    InvalidCreated
    => /\ Count(routed, InvalidFeatureAppError) = 1
       /\ routed[1] = InvalidFeatureAppError
       /\ "featureApp" \notin DOMAIN state
       /\ pc # "discarded" => state = [featureAppError |-> InvalidFeatureAppError]
       /\ renderCalls = 0
       /\ attachCalls = <<>>
       /\ (lastRender # NotRendered /\ ~props.renderError
              /\ props.children = "none")
             => lastRender = [view |-> "null"]

\* An empty object was created, logged, rendered as nothing and unmounted.
C7_Witness ==
    /\ InvalidCreated
    /\ env.featureApp = "empty"
    /\ loggerCalls = <<InvalidFeatureAppError>>
    /\ lastRender = [view |-> "null"]
    /\ pc = "unmounted"

\* The node render() produced for the Feature App: what it returned, or
\* what it handed to the children render prop.
FeatureAppNode(out) ==
    IF out.view = "children" THEN out.featureApp ELSE out.view

\* C8: a valid Attachable in a Container that is mounted: the first render
\* produces the placeholder, and attachTo is invoked exactly once, with the
\* placeholder, by the time the mount-time processing has ended.
C8_AttachedOnceAtMount ==
    (env.create = "returns" /\ env.featureApp = "dom")
    => /\ pc = "rendered" => FeatureAppNode(lastRender) = "div"
       /\ Len(attachCalls) <= 1
       /\ (pc = "mounted" /\ didMount \in {"done", "rejected"})
             => attachCalls = <<[container |-> "div", mounted |-> TRUE]>>

AttachThrew ==
    /\ env.attachThrows
    /\ attachCalls # <<>>

\* C9 as stated: attachTo throws E at mount and the error callback does not
\* throw: E is routed exactly once, nothing escapes the mount phase, the
\* Container is Failed(E) and the render after it is renderError(E) if
\* supplied and nothing otherwise.
C9_Original ==
    (AttachThrew /\ attachCalls[1].mounted /\ props.onError # "throws")
    => /\ Count(routed, AttachError) = 1
       /\ escaped = <<>> /\ rejection = "none"
       /\ HasError /\ state.featureAppError = AttachError
       /\ lastRender = RenderErrorViewOf(AttachError)

\* C9 amended: as C9, the render after the failure being renderError(E) or
\* nothing when no children render prop is supplied and
\* children({error: E, loading: false}) when one is; an attachTo that throws
\* on an unmounted Container is routed once as well and does not escape.
C9_AttachErrorContained ==
    (AttachThrew /\ props.onError # "throws")
    => /\ Count(routed, AttachError) = 1
       /\ escaped = <<>> /\ rejection = "none"
       /\ attachCalls[1].mounted
             => /\ HasError /\ state.featureAppError = AttachError
                /\ lastRender = ErrorViewOf(AttachError)

\* attachTo threw after the readiness signal resolved; onError returned.
C9_Witness ==
    /\ AttachThrew
    /\ attachCalls[1].mounted
    /\ env.loadingPromise
    /\ props.onError = "returns"
    /\ onErrorCalls = <<AttachError>>
    /\ lastRender = ErrorViewOf(AttachError)

InSeq(seq, x) == \E i \in DOMAIN seq : seq[i] = x

\* A failure of the mount phase was handed to handleError while the
\* Container was mounted.
MountFailureRouted ==
    \/ AttachThrew /\ attachCalls[1].mounted
    \/ InSeq(routed, ReadinessError) /\ pc = "mounted"

\* C11: a mount-time failure (attachTo throws, the readiness signal rejects)
\* routed to an onError that throws E2: E2 reaches the host tree, where the
\* surrounding boundary receives it.
C11_HandlerErrorReachesBoundary ==
    (props.onError = "throws" /\ MountFailureRouted)
    => InSeq(escaped, [site |-> "componentDidMount", error |-> HandlerError])

\* C12: a render throw, a caught subtree error or a release throw routed to
\* an onError that throws E2: E2 leaves the operation that was running
\* (render, componentDidCatch, componentWillUnmount) in place of the
\* original error, and the logger is not called.
C12_HandlerErrorReplacesAndPropagates ==
    props.onError = "throws"
    => /\ loggerCalls = <<>>
       /\ InSeq(routed, RenderError)
             => /\ InSeq(escaped, [site |-> "render", error |-> HandlerError])
                /\ ~InSeq(escaped, [site |-> "render", error |-> RenderError])
       /\ InSeq(routed, SubtreeError)
             => /\ InSeq(escaped, [site |-> "componentDidCatch",
                                   error |-> HandlerError])
                /\ ~InSeq(escaped, [site |-> "componentDidCatch",
                                    error |-> SubtreeError])
       /\ InSeq(routed, ReleaseError)
             => /\ InSeq(escaped, [site |-> "componentWillUnmount",
                                   error |-> HandlerError])
                /\ ~InSeq(escaped, [site |-> "componentWillUnmount",
                                    error |-> ReleaseError])

\* The handler threw in componentDidCatch and again in componentWillUnmount.
C12_Witness ==
    /\ props.onError = "throws"
    /\ routed = <<SubtreeError, ReleaseError>>
    /\ Len(escaped) = 2
    /\ pc = "unmounted"

C14_LoadingFalseAfterMount ==
    (pc = "mounted" /\ didMount = "done" /\ ~HasError
        /\ "featureApp" \in DOMAIN state)
    => /\ ~state.loading
       /\ lastRender.view = "children" => ~lastRender.loading

\* C15: the readiness signal of a mounted Container rejects with E and the
\* error callback does not throw: E is routed exactly once and the Container
\* is and stays Failed(E), its render being the error view of E.
C15_ReadinessRejectionFails ==
    (InSeq(routed, ReadinessError) /\ pc = "mounted"
        /\ props.onError # "throws")
    => /\ Count(routed, ReadinessError) = 1
       /\ HasError /\ state.featureAppError = ReadinessError
       /\ lastRender = ErrorViewOf(ReadinessError)

\* C16: once the Container is unmounted with its readiness wait pending, the
\* settling of the signal neither changes the state nor calls onError or
\* the logger.
C16_SettleAfterUnmountIsNoOp ==
    [][(pc = "unmounted" /\ didMount = "awaiting")
          => /\ state' = state
             /\ onErrorCalls' = onErrorCalls
             /\ loggerCalls' = loggerCalls]_vars

\* C18: release throws E at unmount and the error callback does not throw:
\* E is routed exactly once, to onError if supplied and else to the logger,
\* and nothing leaves componentWillUnmount.
C18_ReleaseErrorContained ==
    (pc = "unmounted" /\ env.releaseThrows /\ featureAppScope # "none"
        /\ props.onError # "throws")
    => /\ releaseCalls = 1
       /\ Count(routed, ReleaseError) = 1
       /\ IF props.onError = "none"
          THEN Count(loggerCalls, ReleaseError) = 1
                  /\ Count(onErrorCalls, ReleaseError) = 0
          ELSE Count(onErrorCalls, ReleaseError) = 1
                  /\ Count(loggerCalls, ReleaseError) = 0
       /\ escaped = <<>>

\* A release that threw was logged and the unmount completed.
C18_Witness ==
    /\ pc = "unmounted"
    /\ env.releaseThrows
    /\ props.onError = "none"
    /\ loggerCalls = <<ReleaseError>>
    /\ escaped = <<>>

SubtreeErrorCaught ==
    /\ Count(routed', SubtreeError) > Count(routed, SubtreeError)
    /\ props.onError # "throws"

\* C19 as stated: a subtree error E caught by componentDidCatch, the error
\* callback not throwing: E is routed exactly once, the Container is
\* Failed(E), nothing propagates, and the render is renderError(E) if
\* supplied and nothing otherwise.
C19_Original ==
    [][SubtreeErrorCaught
          => /\ Count(routed', SubtreeError) = 1
             /\ escaped' = <<>>
             /\ "featureAppError" \in DOMAIN state'
             /\ state'.featureAppError = SubtreeError
             /\ lastRender' = RenderErrorViewOf(SubtreeError)]_vars

\* C19 amended: as C19, the render being renderError(E) or nothing when no
\* children render prop is supplied and children({error: E, loading: false})
\* when one is.
C19_SubtreeErrorContained ==
    [][SubtreeErrorCaught
          => /\ Count(routed', SubtreeError) = 1
             /\ escaped' = <<>>
             /\ "featureAppError" \in DOMAIN state'
             /\ state'.featureAppError = SubtreeError
             /\ lastRender' = ErrorViewOf(SubtreeError)]_vars

\* A caught subtree error is held and its error view is rendered.
C19_Witness ==
    /\ InSeq(routed, SubtreeError)
    /\ props.onError = "returns"
    /\ HasError /\ state.featureAppError = SubtreeError
    /\ lastRender = ErrorViewOf(SubtreeError)
    /\ pc = "mounted"

----------------------------------------------------------------------------
(* Properties of the Loader, under SpecLoader *)

\* The error view of the Loader for an error: renderError(error), or null.
LoaderErrorViewOf(error) ==
    IF loader.props.renderError
    THEN [view |-> "renderError", error |-> error]
    ELSE [view |-> "null"]

\* C17: once a Loader is unmounted, the settling of its resolution promise
\* (with a definition, with an error, or with an error and a throwing
\* onError) leaves its state as it was at unmount: no step of an unmounted
\* Loader changes the definition, the error or the unrecoverable flag.
C17_SettleAfterUnmountKeepsState ==
    [][loader.pc = "unmounted" => loader'.state = loader.state]_vars

\* The promise was rejected after the unmount of a pending Loader whose
\* onError throws, and the state is still empty.
C17_Witness ==
    /\ loader.pc = "unmounted"
    /\ loader.didMount = "done"
    /\ loader.props.onError = "throws"
    /\ loader.onErrorCalls = <<ResolutionError>>
    /\ loader.state = NoState

\* The resolver reported an error at construction and onError, if given,
\* returns.
SyncResolutionFailure ==
    /\ loader.pc \notin {"init", "discarded"}
    /\ loader.env.src
    /\ loader.env.resolved = "error"
    /\ loader.props.onError # "throws"

\* C20: when the resolver returns an error E at the construction of the
\* Loader and onError (if any) returns, E went to onError if supplied and to
\* the logger otherwise, the Loader holds E without the unrecoverable flag,
\* every render gives renderError(E) or null, and the Loader never renders
\* a FeatureAppContainer.
C20_SyncResolutionError ==
    SyncResolutionFailure =>
        /\ IF loader.props.onError = "returns"
           THEN /\ loader.onErrorCalls = <<ResolutionError>>
                /\ loader.loggerCalls = <<>>
           ELSE /\ loader.onErrorCalls = <<>>
                /\ loader.loggerCalls = <<ResolutionError>>
        /\ "error" \in DOMAIN loader.state
        /\ loader.state.error = ResolutionError
        /\ "failedToHandleAsyncError" \notin DOMAIN loader.state
        /\ loader.escaped = <<>>
        /\ \/ loader.lastRender = NotRendered
           \/ loader.lastRender = LoaderErrorViewOf(ResolutionError)

\* After such a construction the Loader was mounted, its promise resolved
\* with a definition all the same, and it rendered again.
C20_Witness ==
    /\ SyncResolutionFailure
    /\ loader.pc = "mounted"
    /\ loader.didMount = "done"
    /\ "featureAppDefinition" \in DOMAIN loader.state
    /\ loader.rerenders > 0
    /\ loader.lastRender = LoaderErrorViewOf(ResolutionError)

\* The promise awaited at mount was rejected while the Loader was mounted,
\* and no error had been handled at construction.
AsyncResolutionFailure ==
    /\ loader.pc = "mounted"
    /\ loader.settled = "rejected"
    /\ loader.env.resolved = "promise"

\* C21: when the asynchronous resolution of a mounted Loader fails with E
\* and onError throws E2, the Loader holds E2 with the unrecoverable flag and
\* its render throws E2 instead of giving an error view or null; when the
\* error callback returns (or the logger is used), the Loader holds E, its
\* render gives the error view of E and nothing is thrown.
C21_AsyncFailureWithThrowingHandler ==
    AsyncResolutionFailure =>
        /\ "error" \in DOMAIN loader.state
        /\ IF loader.props.onError = "throws"
           THEN /\ loader.state.error = HandlerError
                /\ "failedToHandleAsyncError" \in DOMAIN loader.state
                /\ loader.escaped =
                       <<[site |-> "render", error |-> HandlerError]>>
                /\ loader.lastRender = Null
           ELSE /\ loader.state.error = ResolutionError
                /\ "failedToHandleAsyncError" \notin DOMAIN loader.state
                /\ loader.escaped = <<>>
                /\ loader.lastRender = LoaderErrorViewOf(ResolutionError)

\* The rejection was handled by an onError that threw, and the render that
\* followed threw the handler's error.
C21_Witness ==
    /\ AsyncResolutionFailure
    /\ loader.props.onError = "throws"
    /\ loader.onErrorCalls = <<ResolutionError>>
    /\ loader.escaped = <<[site |-> "render", error |-> HandlerError]>>

\* A mounted Loader that holds neither a definition nor an error.
LoaderPending ==
    /\ loader.pc = "mounted"
    /\ "featureAppDefinition" \notin DOMAIN loader.state
    /\ "error" \notin DOMAIN loader.state

\* C22: a Loader that is mounted without a definition or an error, and is
\* not unmounted, eventually holds the resolved definition and renders a
\* FeatureAppContainer, or holds an error; and a mounted Loader whose promise
\* has settled is never pending.
C22_PendingEventuallyLeft ==
    /\ LoaderPending ~>
           \/ loader.pc = "unmounted"
           \/ /\ "featureAppDefinition" \in DOMAIN loader.state
              /\ loader.lastRender = FeatureAppContainerElement
           \/ "error" \in DOMAIN loader.state
    /\ [](loader.pc = "mounted" /\ loader.settled # "no" => ~LoaderPending)

\* A Loader that was pending got its definition while mounted and renders a
\* FeatureAppContainer.
C22_Witness ==
    /\ loader.pc = "mounted"
    /\ loader.env.resolved = "promise"
    /\ loader.settled = "resolved"
    /\ loader.state = [featureAppDefinition |-> FeatureAppDefinition]
    /\ loader.lastRender = FeatureAppContainerElement

\* The number of link elements of the document with an href.
LinkCount(href) ==
    Cardinality({i \in DOMAIN loader.document :
                    loader.document[i].href = href})

\* C23: after any number of mounts of Loader instances, whose css lists may
\* repeat an href, the document has exactly one link element for every href
\* declared by a Loader that was mounted, and no other link element.
C23_OneLinkPerHref ==
    /\ \A href \in loader.declaredHrefs : LinkCount(href) = 1
    /\ \A i \in DOMAIN loader.document :
           loader.document[i].href \in loader.declaredHrefs

\* A second instance was mounted with a css list that names one href
\* twice, in a document that has the link of that href once.
C23_Witness ==
    /\ loader.instances = 2
    /\ loader.pc = "mounted"
    /\ loader.props.css.defined
    /\ Len(loader.props.css.items) = 2
    /\ loader.props.css.items[1].href = loader.props.css.items[2].href
    /\ Len(loader.document) = 2
    /\ LinkCount(prependBaseUrl(loader.props.baseUrl, "a.css")) = 1

\* A request of this instance to the resolver whose promise has not settled.
OutstandingRequest ==
    /\ Len(loader.getAsyncCalls) > 0
    /\ loader.env.resolved = "promise"
    /\ loader.settled = "no"

\* C24: a Loader does not call getAsyncFeatureAppDefinition while the
\* promise of an earlier call of the same instance is pending.
C24_NoDuplicateRequest ==
    [][Len(loader'.getAsyncCalls) > Len(loader.getAsyncCalls)
          => ~OutstandingRequest]_vars

----------------------------------------------------------------------------
(* Ordering, for a Container and for a Loader: under SpecEither *)

\* C25: a Container has rendered only after its construction is complete
\* (the scope was requested, and the state holds a validated Feature App or
\* an error); its readiness wait and every attachTo happen at or after
\* mount, after the first render; a Loader awaits the resolution promise
\* and touches the document only at or after mount, after its first render.
C25_Ordering ==
    /\ lastRender # NotRendered =>
           /\ createCalls = 1
           /\ state # NoState
           /\ "featureApp" \in DOMAIN state => isFeatureApp(state.featureApp)
    /\ (attachCalls # <<>> \/ didMount # "notStarted") =>
           /\ pc \in {"mounted", "unmounted"}
           /\ lastRender # NotRendered
    /\ loader.pc # "absent" =>
           ((loader.document # <<>> \/ loader.didMount # "notStarted") =>
               /\ loader.pc \in {"mounted", "unmounted"}
               /\ loader.lastRender # NotRendered)

\* A DOM Feature App with a readiness signal was attached, after the wait,
\* in a mounted Container.
C25_Witness ==
    /\ pc = "mounted"
    /\ env.loadingPromise
    /\ didMount = "done"
    /\ Len(attachCalls) = 1
    /\ lastRender # NotRendered

----------------------------------------------------------------------------
(* Properties of the serialized-state manager, under SpecRegistry *)

\* C26: when the manager of the browser was given what serializeStates of
\* the server returned, getSerializedState gives every consumer that was
\* registered on the server exactly the string of its own serializer, and
\* undefined to every consumer that was not registered there.
C26_RoundTrip ==
    registry.setCalls > 0 =>
        /\ registry.browser.thrown = "none"
        /\ \A consumerId \in ConsumerIds :
               getSerializedState(registry.browser, consumerId) =
                   IF consumerId \in DOMAIN registry.received
                   THEN [defined |-> TRUE,
                         value |-> registry.received[consumerId]]
                   ELSE Undefined

\* Two consumers registered different states on the server, one of them
\* with characters that JSON and the percent-encoding escape, and the
\* browser received them.
C26_Witness ==
    /\ registry.setCalls = 1
    /\ DOMAIN registry.received = ConsumerIds
    /\ registry.received[<<"c", ":", "1">>] = <<"\"", "}">>
    /\ registry.received[<<"c", ":", "2">>] = <<"%", "2", "2">>
    /\ registry.lastRead.read
    /\ registry.lastRead.id = <<"c", ":", "2">>
    /\ registry.lastRead.result =
           [defined |-> TRUE, value |-> <<"%", "2", "2">>]

\* C27: as long as setSerializedStates was not called, getSerializedState
\* is undefined for every consumer, however many serializers are
\* registered; and it is undefined for a consumer without an entry in the
\* inbound mapping.
C27_UndefinedWithoutInbound ==
    \A consumerId \in ConsumerIds :
        /\ registry.setCalls = 0 =>
               /\ getSerializedState(registry.browser, consumerId) = Undefined
               /\ (registry.lastRead.read =>
                      registry.lastRead.result = Undefined)
        /\ (\A i \in DOMAIN registry.browser.inbound.members :
               registry.browser.inbound.members[i].id # consumerId) =>
               getSerializedState(registry.browser, consumerId) = Undefined

\* Both consumers registered in the browser, setSerializedStates was not
\* called, and a consumer read undefined.
C27_Witness ==
    /\ registry.setCalls = 0
    /\ DOMAIN registry.browser.serializers = ConsumerIds
    /\ registry.lastRead.read
    /\ registry.lastRead.result = Undefined

----------------------------------------------------------------------------
(* Further properties of the Container, under Spec *)

\* C28: attachTo is not invoked on a Container that is Failed, nor in the
\* step in which the rejection of the readiness signal is routed.
C28_NoAttachOnceFailed ==
    [][Len(attachCalls') > Len(attachCalls)
          => /\ ~HasError
             /\ Count(routed', ReadinessError) = Count(routed, ReadinessError)
      ]_vars

\* C29: attachTo is not invoked once the scope has been released.
C29_NoAttachAfterRelease ==
    [][Len(attachCalls') > Len(attachCalls) => releaseCalls = 0]_vars

\* C30: without a children render prop and with an error callback that
\* returns, the render of a React Feature App that throws is invoked once
\* and its error is routed once, whatever render passes follow.
C30_RenderThrowRoutedOnce ==
    (props.children = "none" /\ props.onError # "throws")
    => /\ Count(routed, RenderError) <= 1
       /\ (InSeq(routed, RenderError) => renderCalls = 1)

\* C31: with a children render prop and an error callback that returns, a
\* React Feature App whose render throws E: nothing leaves the render of the
\* Container, E is routed, and the children render prop is called with
\* error E and loading false.
C31_RenderThrowContainedWithChildren ==
    (props.children # "none" /\ env.renderThrows /\ renderCalls > 0
        /\ props.onError # "throws")
    => /\ escaped = <<>>
       /\ Count(routed, RenderError) >= 1
       /\ lastRender = children("none", RenderError, FALSE)

\* C32: with a children render prop that shows a loading UI while loading
\* is true, a DOM Feature App whose readiness signal has resolved in a
\* mounted Container is shown: the children got loading false with the
\* placeholder, and attachTo was invoked with the placeholder.
C32_AttachedAfterLoadingUi ==
    (props.children = "whenLoaded" /\ env.create = "returns"
        /\ env.featureApp = "dom" /\ env.loadingPromise
        /\ pc = "mounted" /\ didMount = "done" /\ ~HasError)
    => /\ lastRender = children("div", "none", FALSE)
       /\ attachCalls = <<[container |-> "div", mounted |-> TRUE]>>

----------------------------------------------------------------------------
(* Further properties of the Loader, under SpecLoader *)

\* C33: a Loader calls onError or the logger at most once in its life, also
\* when the resolver reported an error at construction and the promise
\* awaited at mount is rejected as well.
C33_RoutedAtMostOnce ==
    Len(loader.onErrorCalls) + Len(loader.loggerCalls) <= 1

\* The resolver reported an error at construction, it was routed, and the
\* promise awaited at mount was rejected while the Loader was mounted.
C33_Witness ==
    /\ loader.pc = "mounted"
    /\ loader.env.resolved = "error"
    /\ loader.settled = "rejected"
    /\ loader.errorHandled
    /\ Len(loader.onErrorCalls) + Len(loader.loggerCalls) = 1

\* C34: a Loader that holds an error keeps holding an error and does not
\* render a FeatureAppContainer, also when the promise awaited at mount
\* resolves with a definition.
C34_HeldErrorDominates ==
    /\ []("error" \in DOMAIN loader.state
             => loader.lastRender # FeatureAppContainerElement)
    /\ [][ "error" \in DOMAIN loader.state
             => /\ "error" \in DOMAIN loader'.state
                /\ loader'.lastRender # FeatureAppContainerElement ]_vars

\* A Loader that held an error got a definition from the promise and
\* rendered its error view.
C34_Witness ==
    /\ loader.pc = "mounted"
    /\ loader.settled = "resolved"
    /\ DOMAIN loader.state = {"error", "featureAppDefinition"}
    /\ loader.lastRender = LoaderErrorViewOf(loader.state.error)

\* C35: no step of an unmounted Loader calls onError or the logger, in
\* particular not the rejection of the promise it was waiting for.
C35_NoRoutingAfterUnmount ==
    [][loader.pc = "unmounted"
          => /\ loader'.onErrorCalls = loader.onErrorCalls
             /\ loader'.loggerCalls = loader.loggerCalls]_vars
====
